---- MODULE Spec2Model ----
(***************************************************************************)
(* Least-cost blending of a desired product from priced ingredients.       *)
(*                                                                         *)
(* One request is followed through the program: the HTTP layer validates   *)
(* the body into a Data object (src/app.py:7, the pydantic models of       *)
(* src/main.py:10-29), solve_func builds the linear program                *)
(* (create_instance, src/main.py:94-100), hands it to the solver           *)
(* (src/main.py:105-106) and maps the solver's results to a SolverOutput   *)
(* (src/main.py:108-127).                                                  *)
(*                                                                         *)
(* Numbers.  abv values are counted in tenths (AbvLe = 10 is abv 1.0),     *)
(* costs and the desired volume are whole numbers, and the values the      *)
(* solver returns are exact fractions [num, den].  Floating-point rounding *)
(* and solver tolerances are not modelled.                                 *)
(*                                                                         *)
(* An absent value (Python's None, or an object not created yet) is the    *)
(* empty sequence; a present value v is <<v>>.                             *)
(*                                                                         *)
(* What the libraries do with the program's calls:                         *)
(*  - pyomo.Var(<list of names>) indexes the variable by the set of the    *)
(*    names: a name the list repeats is one variable, shared by the terms  *)
(*    of every option of that name;                                        *)
(*  - produced_volume[name] * c is a term of the expression also when      *)
(*    c = 0 (pyomo folds a factor 1, not a factor 0);                      *)
(*  - sum() over no option is the plain number 0, `number == 0` is then a  *)
(*    Python bool, and pyomo.Constraint(expr=<bool>) raises ValueError;    *)
(*  - solver.solve raises when the solver executable cannot be run or      *)
(*    exits abnormally.                                                    *)
(* The solver itself is not part of the repository.  Under Spec it keeps   *)
(* the contract of an LP solver (SolverReplies); under SpecAnyReply it may *)
(* answer anything (AnyReplies).                                           *)
(***************************************************************************)
EXTENDS Integers, Sequences, FiniteSets, TLC

VARIABLES
    pc,        \* where the request is: request, rejected, validated, built,
               \* solved, done, raised
    data,      \* the request body: [desired_product, options]
    instance,  \* the pyomo ConcreteModel built by create_instance
    results,   \* the SolverResults of solver.solve
    output,    \* the SolverOutput returned by solve_func
    error      \* the exception that ended the request, "none" if none

vars == <<pc, data, instance, results, output, error>>

None == <<>>
Some(v) == <<v>>

-----------------------------------------------------------------------------
(* Bounds of the model *)

\* longest options list among the requests with arbitrary (also invalid) fields
MaxRawOptions == 2
\* longest options list among the well-formed requests with distinct names
MaxOptions == 3
\* blends compared with the optimum are counted in 1/Steps of a volume unit
Steps == 2

-----------------------------------------------------------------------------
(* Exact fractions *)

Abs(n) == IF n < 0 THEN -n ELSE n

RECURSIVE GCD(_, _)
GCD(a, b) == IF b = 0 THEN a ELSE GCD(b, a % b)

Rat(n, d) ==
    LET s == IF d < 0 THEN -1 ELSE 1
        g == GCD(Abs(n), Abs(d))
    IN  [num |-> (s * n) \div g, den |-> (s * d) \div g]

Zero == Rat(0, 1)
RatAdd(p, q) == Rat(p.num * q.den + q.num * p.den, p.den * q.den)
RatScale(k, p) == Rat(k * p.num, p.den)
RatLeq(p, q) == p.num * q.den <= q.num * p.den

-----------------------------------------------------------------------------
(* Entities and their validation (pydantic) *)

\* confloat(ge=0, le=1), in tenths
AbvGe == 0
AbvLe == 10

IngredientValid(o) ==
    /\ o.abv >= AbvGe
    /\ o.abv <= AbvLe
    /\ o.cost >= 0

\* faulty variant: the volume 0 is let through
DesiredProductValidNonNegativeVolume(d) ==
    /\ d.volume >= 0
    /\ d.abv >= AbvGe
    /\ d.abv <= AbvLe

DesiredProductValid(d) ==
    /\ d.volume > 0
    /\ d.abv >= AbvGe
    /\ d.abv <= AbvLe

DataValid(d) ==
    /\ DesiredProductValid(d.desired_product)
    /\ \A i \in DOMAIN d.options : IngredientValid(d.options[i])

-----------------------------------------------------------------------------
(* The model builder (create_instance and the four add_* functions) *)

Names(options) == {options[i].name : i \in DOMAIN options}

\* pyomo.Var([o.name for o in data.options], ...): the index set holds each
\* name once, whatever the list repeats
add_produced_volume_variable(d) == Names(d.options)

\* domain=pyomo.NonNegativeReals (faulty variant first: domain=pyomo.Reals)
VarDomainReals == "Reals"
VarDomain == "NonNegativeReals"

\* sense=pyomo.minimize (faulty variant first: sense=pyomo.maximize)
SenseMaximize == "maximize"
Sense == "minimize"

\* A linear expression is the list of its terms, one per option, in the order
\* of the options; Python's sum() over no option is the plain number 0, which
\* is the empty list here.
add_objective(d) ==
    [i \in DOMAIN d.options |->
        [var |-> d.options[i].name, coef |-> d.options[i].cost]]

\* faulty variant: each volume is weighted by the option's abv
add_correct_volume_constraint_by_abv(d) ==
    [i \in DOMAIN d.options |->
        [var |-> d.options[i].name, coef |-> d.options[i].abv]]
add_correct_volume_constraint(d) ==
    [i \in DOMAIN d.options |-> [var |-> d.options[i].name, coef |-> 1]]

\* faulty variant: the target abv is not subtracted
add_correct_abv_constraint_unshifted(d) ==
    [i \in DOMAIN d.options |->
        [var |-> d.options[i].name, coef |-> d.options[i].abv]]
add_correct_abv_constraint(d) ==
    [i \in DOMAIN d.options |->
        [var |-> d.options[i].name,
         coef |-> d.options[i].abv - d.desired_product.abv]]

\* `number == sum(...)` over no option compares two plain numbers: Python
\* evaluates it to a bool, and pyomo.Constraint(expr=<bool>) raises ValueError
TrivialBoolean(body) == body = <<>>

\* The model as far as its construction gets: the constraints are added in
\* the order vol, abv, and the first trivial one raises.
BuildRaises(d) ==
    \/ TrivialBoolean(add_correct_volume_constraint(d))
    \/ TrivialBoolean(add_correct_abv_constraint(d))

BuiltInstance(d) ==
    [produced_volume |-> add_produced_volume_variable(d),
     domain          |-> VarDomain,
     sense           |-> Sense,
     cost            |-> add_objective(d),
     vol             |-> [value |-> d.desired_product.volume,
                          body  |-> add_correct_volume_constraint(d)],
     abv             |-> [value |-> 0, body |-> add_correct_abv_constraint(d)]]

-----------------------------------------------------------------------------
(* Evaluation of expressions (pyomo.value) *)

RECURSIVE SumTerms(_, _)
\* the value of a linear expression under the assignment x of fractions
SumTerms(expr, x) ==
    IF expr = <<>> THEN Zero
    ELSE RatAdd(RatScale(expr[1].coef, x[expr[1].var]),
                SumTerms(Tail(expr), x))

RECURSIVE Coef(_, _)
\* the coefficient a variable has in a linear expression, its terms collected
Coef(expr, n) ==
    IF expr = <<>> THEN 0
    ELSE (IF expr[1].var = n THEN expr[1].coef ELSE 0) + Coef(Tail(expr), n)

-----------------------------------------------------------------------------
(* The external LP solver, by its contract: an empty feasible region is     *)
(* reported infeasible, otherwise an optimal basic solution is returned.    *)

TerminationConditions ==
    {"optimal", "feasible", "infeasible", "unbounded", "other"}
SolverStatuses == {"ok", "warning", "error", "aborted"}

InDomain(inst, v) == inst.domain = "Reals" \/ v.num >= 0

\* The basic solutions of the two equalities  m.x = b1 (vol), d.x = b2 (abv):
\* at most two variables are non-zero.
BasicSolutions(inst) ==
    LET N  == inst.produced_volume
        b1 == inst.vol.value
        b2 == inst.abv.value
        m(n) == Coef(inst.vol.body, n)
        d(n) == Coef(inst.abv.body, n)
        Only(i, xi) == [n \in N |-> IF n = i THEN xi ELSE Zero]
        Both(i, xi, j, xj) ==
            [n \in N |-> IF n = i THEN xi ELSE IF n = j THEN xj ELSE Zero]
        Single(i) ==
            IF m(i) # 0 /\ d(i) * b1 = b2 * m(i) /\ InDomain(inst, Rat(b1, m(i)))
            THEN {Only(i, Rat(b1, m(i)))} ELSE {}
        Pair(i, j) ==
            LET det == m(i) * d(j) - m(j) * d(i)
            IN  IF det = 0 THEN {}
                ELSE LET xi == Rat(b1 * d(j) - b2 * m(j), det)
                         xj == Rat(m(i) * b2 - d(i) * b1, det)
                     IN  IF InDomain(inst, xi) /\ InDomain(inst, xj)
                         THEN {Both(i, xi, j, xj)} ELSE {}
    IN  UNION ({Single(i) : i \in N}
               \cup {Pair(p[1], p[2]) : p \in {q \in N \X N : q[1] # q[2]}})

Better(inst, p, q) ==
    IF inst.sense = "minimize" THEN RatLeq(p, q) ELSE RatLeq(q, p)

OptimalSolutions(inst) ==
    {x \in BasicSolutions(inst) :
        \A y \in BasicSolutions(inst) :
            Better(inst, SumTerms(inst.cost, x), SumTerms(inst.cost, y))}

\* what solver.solve may return for the instance
SolverReplies(inst) ==
    IF BasicSolutions(inst) = {}
    THEN {[termination_condition |-> "infeasible", status |-> "warning",
           values |-> [n \in inst.produced_volume |-> Zero]]}
    ELSE {[termination_condition |-> "optimal", status |-> "ok", values |-> x] :
            x \in OptimalSolutions(inst)}

\* the values a solver that keeps no contract may load into the variables
ReplyValues == {Zero, Rat(5, 1)}

AnyReplies(inst) ==
    [termination_condition : TerminationConditions,
     status : SolverStatuses,
     values : [inst.produced_volume -> ReplyValues]]

-----------------------------------------------------------------------------
(* The result mapper (solve_func after the solve) *)

Positive(f) == {n \in DOMAIN f : f[n].num > 0}

SolverOutputOf(res, cost, volumes) ==
    [termination_condition |-> res.termination_condition,
     solver_status |-> res.status,
     optimal_cost |-> cost,
     volumes_of_ingredients_to_produce |-> volumes]

\* faulty variant: only "infeasible" is taken for a failed solve
MapResultsOnlyInfeasible(inst, res) ==
    IF res.termination_condition = "infeasible"
    THEN SolverOutputOf(res, None, None)
    ELSE SolverOutputOf(res, Some(SumTerms(inst.cost, res.values)),
                        Some([o \in inst.produced_volume |-> res.values[o]]))

\* faulty variant: ingredients of volume zero are left out
MapResultsDropZero(inst, res) ==
    IF res.termination_condition \notin {"optimal", "feasible"}
    THEN SolverOutputOf(res, None, None)
    ELSE SolverOutputOf(res, Some(SumTerms(inst.cost, res.values)),
                        Some([o \in Positive(res.values) |-> res.values[o]]))

\* lines 108-127 of solve_func
MapResults(inst, res) ==
    IF res.termination_condition \notin {"optimal", "feasible"}
    THEN SolverOutputOf(res, None, None)
    ELSE SolverOutputOf(res, Some(SumTerms(inst.cost, res.values)),
                        Some([o \in inst.produced_volume |-> res.values[o]]))

\* faulty variant: the solver's exception is caught and answered infeasible
OnSolverErrorSwallowed ==
    [pc |-> "done", error |-> "none",
     output |-> Some([termination_condition |-> "infeasible",
                      solver_status |-> "error",
                      optimal_cost |-> None,
                      volumes_of_ingredients_to_produce |-> None])]
\* solve_func has no handler around solver.solve: the solver's exception
\* leaves solve_func and nothing is returned
OnSolverError ==
    [pc |-> "raised", error |-> "ApplicationError", output |-> None]

-----------------------------------------------------------------------------
(* The requests that are followed *)

RawNames == {"water", "spirit"}
RawAbv == {-1, 0, 4, 10, 11}
RawCosts == {-1, 0, 10}
RawVolumes == {-1, 0, 10}
RawTargetAbv == {-1, 0, 1, 10, 11}

RawIngredients == [name : RawNames, abv : RawAbv, cost : RawCosts]
RawDesiredProducts == [volume : RawVolumes, abv : RawTargetAbv]

\* the names of the options of a well-formed request, by position
OptionNames == <<"water", "spirit", "juice", "syrup", "malt">>
GoodAbv == {0, 2, 4}
GoodCosts == {0, 10}
GoodVolumes == {4}
GoodTargetAbv == {1, 2}

\* Scenario A: water and spirit, 10 units at abv 0.1
ScenarioA ==
    [desired_product |-> [volume |-> 10, abv |-> 1],
     options |-> <<[name |-> "water", abv |-> 0, cost |-> 0],
                   [name |-> "spirit", abv |-> 4, cost |-> 10]>>]

\* Scenario B: juice alone, 5 units at abv 0.1
ScenarioB ==
    [desired_product |-> [volume |-> 5, abv |-> 1],
     options |-> <<[name |-> "juice", abv |-> 0, cost |-> 2]>>]

RawRequests ==
    [desired_product : RawDesiredProducts,
     options : UNION {[1..n -> RawIngredients] : n \in 0..MaxRawOptions}]

GoodRequests ==
    UNION {
        {[desired_product |-> dp,
          options |-> [k \in 1..n |->
              [name |-> OptionNames[k], abv |-> a[k], cost |-> c[k]]]] :
            dp \in [volume : GoodVolumes, abv : GoodTargetAbv],
            a \in [1..n -> GoodAbv],
            c \in [1..n -> GoodCosts]} :
        n \in 1..MaxOptions}

Start(requests) ==
    /\ data \in requests
    /\ pc = "request"
    /\ instance = None
    /\ results = None
    /\ output = None
    /\ error = "none"

Init == Start(RawRequests \cup GoodRequests \cup {ScenarioB})

InitRaw == Start(RawRequests)

-----------------------------------------------------------------------------
(* The steps of one request *)

\* run_model(data: Data): the request body is validated into a Data object,
\* a body that fails is answered with the validation error
run_model ==
    /\ pc = "request"
    /\ IF DataValid(data)
       THEN pc' = "validated" /\ error' = error
       ELSE pc' = "rejected" /\ error' = "ValidationError"
    /\ UNCHANGED <<data, instance, results, output>>

\* instance = create_instance(data=data)
create_instance ==
    /\ pc = "validated"
    /\ IF BuildRaises(data)
       THEN pc' = "raised" /\ error' = "ValueError" /\ instance' = instance
       ELSE pc' = "built" /\ error' = error
            /\ instance' = Some(BuiltInstance(data))
    /\ UNCHANGED <<data, results, output>>

\* results = solver.solve(instance), the solver keeping its contract
SolverSolve ==
    /\ pc = "built"
    /\ \E r \in SolverReplies(instance[1]) : results' = Some(r)
    /\ pc' = "solved"
    /\ UNCHANGED <<data, instance, output, error>>

\* results = solver.solve(instance), whatever the solver answers
SolverSolveAny ==
    /\ pc = "built"
    /\ \E r \in AnyReplies(instance[1]) : results' = Some(r)
    /\ pc' = "solved"
    /\ UNCHANGED <<data, instance, output, error>>

\* solver.solve(instance) when the solver cannot be run or crashes
SolverFails ==
    /\ pc = "built"
    /\ pc' = OnSolverError.pc
    /\ error' = OnSolverError.error
    /\ output' = OnSolverError.output
    /\ UNCHANGED <<data, instance, results>>

\* the rest of solve_func: the results are mapped and returned
ReturnOutput ==
    /\ pc = "solved"
    /\ output' = Some(MapResults(instance[1], results[1]))
    /\ pc' = "done"
    /\ UNCHANGED <<data, instance, results, error>>

Next ==
    \/ run_model
    \/ create_instance
    \/ SolverSolve
    \/ SolverFails
    \/ ReturnOutput

NextAnyReply ==
    \/ run_model
    \/ create_instance
    \/ SolverSolveAny
    \/ SolverFails
    \/ ReturnOutput

Spec == Init /\ [][Next]_vars

SpecAnyReply == InitRaw /\ [][NextAnyReply]_vars

-----------------------------------------------------------------------------
(* Vocabulary of the properties *)

Out == output[1]
Answered == pc = "done"
Solved(o) == o.termination_condition \in {"optimal", "feasible"}
Absent(o) ==
    /\ o.optimal_cost = None
    /\ o.volumes_of_ingredients_to_produce = None
Volumes(o) == o.volumes_of_ingredients_to_produce[1]
Cost(o) == o.optimal_cost[1]

Opt(i) == data.options[i]
Target == data.desired_product

\* the ranges of section 4.1, restated
RangesHold ==
    /\ \A i \in DOMAIN data.options :
          0 <= Opt(i).abv /\ Opt(i).abv <= 10 /\ 0 <= Opt(i).cost
    /\ 0 < Target.volume
    /\ 0 <= Target.abv /\ Target.abv <= 10

DuplicateNames ==
    \E i, j \in DOMAIN data.options : i # j /\ Opt(i).name = Opt(j).name

RECURSIVE SumOver(_, _)
\* the sum of the fractions f[n], n in S
SumOver(f, S) ==
    IF S = {} THEN Zero
    ELSE LET n == CHOOSE n \in S : TRUE
         IN  RatAdd(f[n], SumOver(f, S \ {n}))

RECURSIVE Weighted(_, _, _)
\* the sum over the options i..Len of w[i] * x[name of option i]
Weighted(w, x, i) ==
    IF i > Len(data.options) THEN Zero
    ELSE RatAdd(RatScale(w[i], x[Opt(i).name]), Weighted(w, x, i + 1))

CostOf(x) == Weighted([i \in DOMAIN data.options |-> Opt(i).cost], x, 1)
AlcoholOf(x) == Weighted([i \in DOMAIN data.options |-> Opt(i).abv], x, 1)
ExcessOf(x) ==
    Weighted([i \in DOMAIN data.options |-> Opt(i).abv - Target.abv], x, 1)

\* the request ended in an exception other than the solver's own failure
Crashed == pc = "raised" /\ error # "ApplicationError"

-----------------------------------------------------------------------------
(* The mapper and the validation *)

\* C1: whenever the solver's termination condition is neither optimal nor
\* feasible, the returned output has optimal_cost and
\* volumes_of_ingredients_to_produce both None.
C1_UnsolvedIsAbsent ==
    (Answered /\ ~Solved(Out)) => Absent(Out)

\* an output was returned for a termination condition "unbounded", with
\* both fields None
C1_Witness ==
    /\ Answered
    /\ Out.termination_condition = "unbounded"
    /\ Absent(Out)
    /\ \E n \in DOMAIN results[1].values : results[1].values[n].num > 0

\* C2: whenever the termination condition is optimal or feasible, the cost
\* and the volume mapping are both present and the keys of the mapping are
\* exactly the names of the request's options.
C2_SolvedCoversEveryIngredient ==
    (Answered /\ Solved(Out)) =>
        /\ Out.optimal_cost # None
        /\ Out.volumes_of_ingredients_to_produce # None
        /\ DOMAIN Volumes(Out) = {Opt(i).name : i \in DOMAIN data.options}

\* a solved output over two ingredients, one of them with volume zero
C2_Witness ==
    /\ Answered
    /\ Solved(Out)
    /\ Cardinality(DOMAIN Volumes(Out)) = 2
    /\ \E n, k \in DOMAIN Volumes(Out) :
          Volumes(Out)[n] = Zero /\ Volumes(Out)[k].num > 0

\* C3: a request in which two ingredients share a name is rejected before a
\* model is built; it never gets past the validation.
C3_DuplicateNamesRejected ==
    DuplicateNames => pc \in {"request", "rejected"}

\* C4: a request is accepted only if every abv is in [0,1], every cost is
\* >= 0 and the volume is > 0; a request outside these ranges is rejected
\* with a validation error, no model is built and the solver is not run for
\* it; a request inside them (the endpoints abv 0, abv 1 and cost 0
\* included) is not rejected.
C4_AcceptedIffInRange ==
    /\ pc \notin {"request", "rejected"} => RangesHold
    /\ ~RangesHold =>
          instance = None /\ results = None /\ output = None
    /\ pc = "rejected" => ~RangesHold /\ error = "ValidationError"

\* a request whose only fault is the volume 0 has been rejected
C4_Witness ==
    /\ pc = "rejected"
    /\ Target.volume = 0
    /\ 0 <= Target.abv /\ Target.abv <= 10
    /\ data.options # <<>>
    /\ \A i \in DOMAIN data.options :
          0 <= Opt(i).abv /\ Opt(i).abv <= 10 /\ 0 <= Opt(i).cost

\* C8: when the solver cannot be run, the request ends in an error and no
\* output is returned: an output exists only for results the solver gave.
C8_SolverFailureIsFatal ==
    /\ results = None => output = None
    /\ error = "ApplicationError" =>
          pc = "raised" /\ output = None /\ results = None

\* the solver failed on a built instance
C8_Witness ==
    /\ pc = "raised"
    /\ error = "ApplicationError"
    /\ instance # None
    /\ output = None

-----------------------------------------------------------------------------
(* The blend that is returned *)

RECURSIVE Units(_, _, _)
\* the sum over the options i..Len of w[i] * k[name of option i], whole numbers
Units(w, k, i) ==
    IF i > Len(data.options) THEN 0
    ELSE w[i] * k[Opt(i).name] + Units(w, k, i + 1)

RECURSIVE Blends(_, _)
\* the assignments k of whole numbers of 1/Steps volume units to the
\* variables N whose volumes, each counted once per option of that name, add
\* up to total
Blends(N, total) ==
    IF N = {} THEN (IF total = 0 THEN {<<>>} ELSE {})
    ELSE LET n == CHOOSE n \in N : TRUE
             m == Cardinality({i \in DOMAIN data.options : Opt(i).name = n})
         IN  UNION {{(n :> k) @@ f : f \in Blends(N \ {n}, total - m * k)} :
                    k \in 0..(total \div m)}

\* the blends on that grid that have the desired volume and strength
FeasibleBlends ==
    {k \in Blends(Names(data.options), Target.volume * Steps) :
        Units([i \in DOMAIN data.options |-> Opt(i).abv - Target.abv], k, 1) = 0}

\* the cost of a blend on the grid
BlendCost(k) ==
    Rat(Units([i \in DOMAIN data.options |-> Opt(i).cost], k, 1), Steps)

\* C5: for a well-formed request with distinct names in which some abv is
\* <= the target and some abv is >= the target, the output is optimal or
\* feasible, the returned volumes add up to the desired volume and the cost
\* is >= 0; building the model does not fail.
C5_BracketedTargetIsSolved ==
    (/\ pc \notin {"request", "rejected"}
     /\ ~DuplicateNames
     /\ \E i \in DOMAIN data.options : Opt(i).abv <= Target.abv
     /\ \E i \in DOMAIN data.options : Opt(i).abv >= Target.abv)
    => /\ ~Crashed
       /\ Answered =>
            /\ Solved(Out)
            /\ Out.optimal_cost # None
            /\ Out.volumes_of_ingredients_to_produce # None
            /\ SumOver(Volumes(Out), DOMAIN Volumes(Out))
                 = Rat(Target.volume, 1)
            /\ Cost(Out).num >= 0

\* the target abv 1.0 was met from an ingredient of abv 1.0 next to a
\* weaker one
C5_Witness ==
    /\ Answered
    /\ Solved(Out)
    /\ Target.abv = 10
    /\ Len(data.options) = 2
    /\ ~DuplicateNames
    /\ \E i \in DOMAIN data.options : Opt(i).abv < 10
    /\ SumOver(Volumes(Out), DOMAIN Volumes(Out)) = Rat(Target.volume, 1)

\* C6: for a well-formed request with at least one ingredient whose abv
\* values are all strictly below or all strictly above the target, solve_func
\* returns an output with termination condition infeasible and no cost and
\* no volumes; no exception of the builder or the mapper ends the request.
C6_OneSidedIsInfeasible ==
    (/\ pc \notin {"request", "rejected"}
     /\ data.options # <<>>
     /\ \/ \A i \in DOMAIN data.options : Opt(i).abv < Target.abv
        \/ \A i \in DOMAIN data.options : Opt(i).abv > Target.abv)
    => /\ ~Crashed
       /\ Answered =>
            Out.termination_condition = "infeasible" /\ Absent(Out)

\* Scenario B was answered infeasible
C6_Witness ==
    /\ Answered
    /\ data = ScenarioB
    /\ Out.termination_condition = "infeasible"
    /\ Absent(Out)

\* C7: when the termination condition is optimal, optimal_cost is the sum
\* of cost_i * volume_i over the options, and no non-negative blend with the
\* desired volume and strength is cheaper; Scenario A is answered water 7.5,
\* spirit 2.5, cost 25.
C7_OptimalCostIsLeast ==
    /\ (Answered /\ Out.termination_condition = "optimal") =>
          /\ Cost(Out) = CostOf(Volumes(Out))
          /\ \A k \in FeasibleBlends : RatLeq(Cost(Out), BlendCost(k))
    /\ (Answered /\ data = ScenarioA) =>
          /\ Out.termination_condition = "optimal"
          /\ Volumes(Out) = ("water" :> Rat(15, 2)) @@ ("spirit" :> Rat(5, 2))
          /\ Cost(Out) = Rat(25, 1)

\* an optimum was returned where blends of different cost exist
C7_Witness ==
    /\ Answered
    /\ Out.termination_condition = "optimal"
    /\ \E k, l \in FeasibleBlends :
          /\ BlendCost(k) # BlendCost(l)
          /\ Cost(Out) = BlendCost(k)

\* C9: in every optimal or feasible output each volume is >= 0 and the
\* blend has the target strength: sum volume_i * (abv_i - target) = 0 and
\* sum volume_i * abv_i = target * desired volume; a single ingredient may
\* take up to the whole desired volume.
C9_BlendHasTargetStrength ==
    (Answered /\ Solved(Out)) =>
        /\ \A n \in DOMAIN Volumes(Out) :
              /\ Volumes(Out)[n].num >= 0
              /\ RatLeq(Volumes(Out)[n], Rat(Target.volume, 1))
        /\ ExcessOf(Volumes(Out)) = Zero
        /\ AlcoholOf(Volumes(Out)) = Rat(Target.abv * Target.volume, 1)

\* of three ingredients one was given the whole desired volume
C9_Witness ==
    /\ Answered
    /\ Solved(Out)
    /\ Len(data.options) = 3
    /\ \E n \in DOMAIN Volumes(Out) :
          Volumes(Out)[n] = Rat(Target.volume, 1)

\* C10: a request with no ingredient and a valid desired product does not
\* crash; it is answered infeasible, with no cost and no volumes.
C10_NoIngredientIsInfeasible ==
    (pc \notin {"request", "rejected"} /\ data.options = <<>>)
    => /\ ~Crashed
       /\ Answered =>
            Out.termination_condition = "infeasible" /\ Absent(Out)

====
